---------------------------- MODULE Spec2Model ----------------------------
(* Stock dashboard data pipeline: the quote fetcher, the batch loader, the  *)
(* five-minute cache and the orchestrated fetch of services/stockService.ts *)
(* and the history fetcher of components/StockChart.tsx.                    *)
(*                                                                          *)
(* Asynchronous functions are cut at their awaits: one action per segment   *)
(* that runs between two awaits on the single event loop.                   *)
EXTENDS Integers, Sequences, FiniteSets, TLC

(***************************************************************************)
(* Bounds of the model                                                     *)
(***************************************************************************)
\* how many of the ten tracked symbols a batch fans out over
NumSymbols == 2
\* how many times the wall clock advances in one behaviour
MaxTicks == 2
\* the largest price (in cents) an upstream quote carries in the fetch model
MaxPrice == 3

(***************************************************************************)
(* Values                                                                  *)
(***************************************************************************)
\* an optional value: <<>> is JavaScript's undefined/null, <<x>> is x
None == <<>>
Some(x) == <<x>>

\* a JavaScript number that may be non-finite; val is in hundredths
Fin(n) == [kind |-> "finite", val |-> n]
NaN == [kind |-> "NaN", val |-> 0]
Infinity == [kind |-> "Infinity", val |-> 0]

\* the symbol list of fetchStockData
AllSymbols == <<"AAPL", "GOOGL", "MSFT", "AMZN", "TSLA", "META", "NVDA", "NFLX", "JPM", "JNJ">>
symbols == SubSeq(AllSymbols, 1, NumSymbols)

\* Response.ok: the status is in the range 200-299
ResponseOk(status) == status \in 200..299

\* JavaScript truthiness of an optional number: undefined and 0 are falsy
Truthy(x) == x # None /\ x[1] # 0

\* x || 0 for an optional number
OrZero(x) == IF Truthy(x) THEN x[1] ELSE 0

(***************************************************************************)
(* Quote Fetcher: fetchStockFromFinnhub                                    *)
(***************************************************************************)
\* Number.prototype.toFixed(2) followed by parseFloat, on the exact quotient
\* num / den * 100 (den > 0), in hundredths: toFixed rounds the magnitude to
\* the nearest hundredth, the larger one on a tie, and keeps the sign
RoundHundredths(num, den) ==
    IF num >= 0
    THEN (2 * num * 10000 + den) \div (2 * den)
    ELSE 0 - ((2 * (0 - num) * 10000 + den) \div (2 * den))

\* ((quoteData.c - quoteData.pc) / quoteData.pc) * 100 when quoteData.c is
\* truthy, else 0; then parseFloat(changePercent.toFixed(2)). Prices are
\* drawn non-negative, so a zero divisor gives +Infinity.
changePercent(q) ==
    IF ~Truthy(q.c) THEN Fin(0)
    ELSE IF q.pc = None THEN NaN
    ELSE IF q.pc[1] = 0 THEN Infinity
    ELSE Fin(RoundHundredths(q.c[1] - q.pc[1], q.pc[1]))

\* a parsed quote body: JSON null, or an object whose fields may be missing
NoQuote == [c |-> None, pc |-> None, v |-> None, isNull |-> FALSE]
NullQuote == [NoQuote EXCEPT !.isNull = TRUE]

\* the call up to its first await: the quote request is issued
StartFetch(symbol) ==
    [pc |-> "quote", symbol |-> symbol, quote |-> NoQuote, result |-> None,
     requests |-> 1, raised |-> FALSE]

\* a faulty catch block that rethrows
CatchRethrows(st) == [st EXCEPT !.pc = "done", !.result = None, !.raised = TRUE]

\* the catch block: log and return null
CatchFetch(st) == [st EXCEPT !.pc = "done", !.result = None]

\* the change percentage and the returned StockData record; reading
\* quoteData.c of a null body throws into the catch block
ReturnRecord(st, companyName) ==
    IF st.quote.isNull THEN CatchFetch(st)
    ELSE [st EXCEPT !.pc = "done",
                    !.result = Some([symbol |-> st.symbol,
                                     name |-> companyName,
                                     price |-> OrZero(st.quote.c),
                                     changePercent |-> changePercent(st.quote),
                                     volume |-> OrZero(st.quote.v)])]

\* the quote request settles: a rejected fetch, a non-OK status (429 or
\* other) and an unparsable body all throw into the catch block; otherwise
\* the profile request is issued
OnQuote(st, resp) ==
    IF resp.net = "reject" THEN CatchFetch(st)
    ELSE IF ~ResponseOk(resp.status) THEN CatchFetch(st)
    ELSE IF ~resp.parse THEN CatchFetch(st)
    ELSE [st EXCEPT !.pc = "profile", !.quote = resp.data, !.requests = @ + 1]

\* a faulty profile step that throws on a non-OK profile status too
OnProfileStrict(st, resp) ==
    IF resp.net = "reject" THEN CatchFetch(st)
    ELSE IF ResponseOk(resp.status)
         THEN IF ~resp.parse \/ resp.isNull THEN CatchFetch(st)
              ELSE IF resp.name # None /\ resp.name[1] # ""
                   THEN ReturnRecord(st, resp.name[1])
                   ELSE ReturnRecord(st, st.symbol)
    ELSE CatchFetch(st)

\* the profile request settles: a rejected fetch, and an unparsable or null
\* body of an OK response, throw into the catch block; a non-OK status or a
\* falsy name keeps companyName = symbol
OnProfile(st, resp) ==
    IF resp.net = "reject" THEN CatchFetch(st)
    ELSE IF ResponseOk(resp.status)
         THEN IF ~resp.parse \/ resp.isNull THEN CatchFetch(st)
              ELSE IF resp.name # None /\ resp.name[1] # ""
                   THEN ReturnRecord(st, resp.name[1])
                   ELSE ReturnRecord(st, st.symbol)
    ELSE ReturnRecord(st, st.symbol)

\* what the upstream can answer
Statuses == {200, 429, 500}
Prices == {None} \cup {Some(p) : p \in 0..MaxPrice}
QuoteBodies == [c : Prices, pc : Prices, v : {None, Some(5)}, isNull : {FALSE}] \cup {NullQuote}
QuoteResponses ==
    {[net |-> "reject", status |-> 0, parse |-> FALSE, data |-> NoQuote]}
    \cup {[net |-> "ok", status |-> s, parse |-> FALSE, data |-> NoQuote] : s \in Statuses}
    \cup {[net |-> "ok", status |-> 200, parse |-> TRUE, data |-> q] : q \in QuoteBodies}
Names == {None, Some(""), Some("Apple Inc")}
ProfileResponses ==
    {[net |-> "reject", status |-> 0, parse |-> FALSE, isNull |-> FALSE, name |-> None]}
    \cup {[net |-> "ok", status |-> s, parse |-> FALSE, isNull |-> FALSE, name |-> None] :
             s \in Statuses}
    \cup {[net |-> "ok", status |-> 200, parse |-> TRUE, isNull |-> FALSE, name |-> n] :
             n \in Names}
    \cup {[net |-> "ok", status |-> 200, parse |-> TRUE, isNull |-> TRUE, name |-> None]}


(***************************************************************************)
(* Cache: cachedStockData, cacheTimestamp                                  *)
(***************************************************************************)
CACHE_DURATION == 5 * 60 * 1000

\* cacheStockData(data) at time t: the new (cachedStockData, cacheTimestamp)
cacheStockData(data, t) == [data |-> data, timestamp |-> t]

\* a faulty freshness test that still serves a snapshot exactly five
\* minutes old
getCachedStockDataInclusive(data, timestamp, t) ==
    IF t - timestamp <= CACHE_DURATION THEN data ELSE <<>>

\* getCachedStockData() at time t
getCachedStockData(data, timestamp, t) ==
    IF t - timestamp < CACHE_DURATION THEN data ELSE <<>>

(***************************************************************************)
(* Batch Loader: fetchStocksFromFinnhub                                    *)
(***************************************************************************)
\* stockResults.filter(Boolean): the non-null results, in symbol order
RECURSIVE validResults(_)
validResults(fs) ==
    IF fs = <<>> THEN <<>> ELSE Head(fs).result \o validResults(Tail(fs))

\* a faulty join that goes on as soon as one per-symbol promise is settled
PromiseAny(fs) == \E i \in 1..Len(fs) : fs[i].pc = "done"

\* a faulty join that does not wait for the last per-symbol promise
PromiseAllSkipsLast(fs) == \A i \in 1..(Len(fs) - 1) : fs[i].pc = "done"

\* Promise.all(promises) is fulfilled once every per-symbol promise is
PromiseAllFulfilled(fs) == \A i \in 1..Len(fs) : fs[i].pc = "done"

\* Promise.all(promises) is rejected as soon as one per-symbol promise is
PromiseAllRejected(fs) == \E i \in 1..Len(fs) : fs[i].raised

(***************************************************************************)
(* Orchestrated fetch: fetchStockData                                      *)
(***************************************************************************)
\* a faulty key check that lets a missing key through
NeverMissing(key) == FALSE

\* !API_KEY
KeyMissing(key) == ~key

\* onNotification(type, ...) when a sink was passed; count is the number
\* the info message reports
Notify(rn, type, count) ==
    IF rn.sink THEN Append(rn.events, [type |-> type, count |-> count])
    ELSE rn.events

\* the configuration error thrown before the try block
ThrowConfig(rn) == [rn EXCEPT !.pc = "thrown", !.error = "config"]

\* a faulty catch block that returns the cached data without looking at
\* its length
CatchReturnsAnyCache(rn, cachedData) ==
    [rn EXCEPT !.pc = "returned", !.data = cachedData, !.readCache = TRUE,
               !.events = Notify(rn, "warning", 0)]

\* the catch block of fetchStockData: the cached data if there is any,
\* else the fatal error
CatchFetchStockData(rn, cachedData) ==
    IF Len(cachedData) > 0
    THEN [rn EXCEPT !.pc = "returned", !.data = cachedData, !.readCache = TRUE,
                    !.events = Notify(rn, "warning", 0)]
    ELSE [rn EXCEPT !.pc = "thrown", !.error = "fatal", !.readCache = TRUE]

\* a faulty try block that announces a batch only when every symbol is in it
TryAnnouncesFullBatchOnly(rn, stockData, cachedData) ==
    IF Len(stockData) = 0 THEN CatchFetchStockData(rn, cachedData)
    ELSE [rn EXCEPT !.pc = "returned", !.data = stockData,
                    !.events = IF Len(stockData) = Len(symbols)
                               THEN Notify(rn, "info", Len(stockData))
                               ELSE rn.events]

\* the try block after the await: an empty batch throws into the catch
\* block, a non-empty one is announced and returned
TryFetchStockData(rn, stockData, cachedData) ==
    IF Len(stockData) = 0 THEN CatchFetchStockData(rn, cachedData)
    ELSE [rn EXCEPT !.pc = "returned", !.data = stockData,
                    !.events = Notify(rn, "info", Len(stockData))]

(***************************************************************************)
(* History Fetcher: StockChart's fetchHistoricalData                       *)
(***************************************************************************)
\* fetchHistoricalDataWithRetry's default retry budget
DefaultRetries == 2
\* the fixed wait after a rate-limited response, in milliseconds
RateLimitDelay == 2000
\* the base of the exponential backoff, in milliseconds
BaseDelay == 1000
\* the chart shows the last 30 points of the real series
ChartPoints == 30
\* generateFallbackData walks from 30 days ago to today
days == 30
SecondsPerDay == 24 * 60 * 60

RECURSIVE Pow2(_)
\* Math.pow(2, n)
Pow2(n) == IF n = 0 THEN 1 ELSE 2 * Pow2(n - 1)

\* toLocaleDateString('en-US', {month: 'short', day: 'numeric'}) of a day
\* count: the day within the year (the year itself is not printed)
DayLabel(day) == day % 365

\* the label of a Unix timestamp in seconds: new Date(timestamp * 1000)
TimestampLabel(timestamp) == DayLabel(timestamp \div SecondsPerDay)

\* a faulty slice that keeps the oldest entries instead of the latest
SliceOldest(seq, startIndex) ==
    IF startIndex >= Len(seq) THEN <<>> ELSE SubSeq(seq, 1, Len(seq) - startIndex)

\* array.slice(startIndex), startIndex counted from 0
SliceFrom(seq, startIndex) ==
    IF startIndex >= Len(seq) THEN <<>> ELSE SubSeq(seq, startIndex + 1, Len(seq))

\* Math.max(0, n)
Max0(n) == IF n > 0 THEN n ELSE 0

\* data && data.t && data.c: the payload is not null and has both arrays
\* (an empty array is truthy)
Usable(payload) == ~payload.isNull /\ payload.t # None /\ payload.c # None

\* the chart data built from a usable payload: the last 30 timestamps as
\* labels and the close prices from the same start index
RealChartData(payload) ==
    LET timestamps == payload.t[1]
        closePrices == payload.c[1]
        startIndex == Max0(Len(timestamps) - ChartPoints)
        recentTimestamps == SliceFrom(timestamps, startIndex)
        recentPrices == SliceFrom(closePrices, startIndex)
    IN  [labels |-> [k \in 1..Len(recentTimestamps) |->
                        TimestampLabel(recentTimestamps[k])],
         data |-> recentPrices]

\* a faulty step that moves the price by twice the draw
StepPriceTwice(price, change) == (price * (100 + 2 * change)) \div 100

\* currentPrice * (1 + change) with change in whole percent, the price kept
\* in hundredths of a cent
StepPrice(price, change) == (price * (100 + change)) \div 100

\* parseFloat(currentPrice.toFixed(2)): hundredths of a cent to cents, the
\* nearest, the larger one on a tie
ToCents(price) == (2 * price + 100) \div 200

RECURSIVE Walk(_, _, _)
\* the loop body of generateFallbackData for i = i, i - 1, ..., 0, where
\* rolls[i] is that day's draw of (Math.random() - 0.5) * 0.1
Walk(price, i, rolls) ==
    IF i < 0 THEN <<>>
    ELSE LET next == StepPrice(price, rolls[i])
         IN  <<ToCents(next)>> \o Walk(next, i - 1, rolls)

\* generateFallbackData() on calendar day `day`: the labels of day - 30 ...
\* day and the walk from stock.price (in cents)
FallbackChartData(price, day, rolls) ==
    [labels |-> [k \in 1..(days + 1) |-> DayLabel(day - (days + 1 - k))],
     data |-> Walk(price * 100, days, rolls)]

\* a parsed candle body: n daily timestamps with their close prices, and
\* an object without either array
Series(n) == [t |-> Some([k \in 1..n |-> k * SecondsPerDay]),
              c |-> Some([k \in 1..n |-> 100 + k]), isNull |-> FALSE]
NoPayload == [t |-> None, c |-> None, isNull |-> FALSE]

\* a fetchHistoricalData call that has not been made; delays lists the
\* waits of its retry loop, each with the branch that took it, and data is
\* what the retry loop returned. History: newest says that no call was made
\* after this one, left is the component's state as the call left it.
IdleCall ==
    [pc |-> "idle", symbol |-> "", price |-> 0, retries |-> 0, attempt |-> 0,
     requests |-> 0, delays |-> <<>>, gaveUp |-> FALSE, fallback |-> FALSE,
     data |-> None, set |-> "none", newest |-> FALSE, left |-> None]

\* the catch block of the retry loop: rethrow on the last attempt, else
\* wait 1000 * 2^attempt before the next one
RetryCatch(call) ==
    IF call.attempt = call.retries
    THEN [call EXCEPT !.pc = "threw", !.gaveUp = TRUE]
    ELSE [call EXCEPT !.pc = "delay",
                      !.delays = Append(@, [why |-> "backoff",
                                           ms |-> BaseDelay * Pow2(call.attempt)])]

\* a 429 response: wait 2000 ms, then continue with the next attempt
RateLimited(call) ==
    [call EXCEPT !.pc = "delay",
                 !.delays = Append(@, [why |-> "rateLimit", ms |-> RateLimitDelay])]

\* a delay is over: attempt++, and either the next request is issued or the
\* loop ends and the final error is thrown
NextAttempt(call) ==
    IF call.attempt + 1 <= call.retries
    THEN [call EXCEPT !.pc = "request", !.attempt = @ + 1, !.requests = @ + 1]
    ELSE [call EXCEPT !.pc = "threw", !.attempt = @ + 1, !.gaveUp = TRUE]

\* what the candle endpoint can answer
Payloads ==
    {Series(n) : n \in {0, 2, ChartPoints + 1}}
    \cup {NoPayload,
          [NoPayload EXCEPT !.isNull = TRUE],
          [Series(2) EXCEPT !.t = None],
          [Series(2) EXCEPT !.c = None],
          [Series(ChartPoints + 1) EXCEPT !.c = Series(2).c]}
HistoryResponses ==
    {[net |-> "reject", status |-> 0, parse |-> FALSE, data |-> NoPayload]}
    \cup {[net |-> "ok", status |-> s, parse |-> FALSE, data |-> NoPayload] : s \in Statuses}
    \cup {[net |-> "ok", status |-> 200, parse |-> TRUE, data |-> p] : p \in Payloads}

\* the draws of one generateFallbackData call, in whole percent: always
\* the lowest, always the highest, or alternating
RollPatterns ==
    {[i \in 0..days |-> -5], [i \in 0..days |-> 4],
     [i \in 0..days |-> IF i % 2 = 0 THEN -5 ELSE 4]}

\* the stocks the dashboard can pass to the chart (price in cents)
Stocks == {[symbol |-> symbols[i], price |-> p] : i \in 1..Len(symbols), p \in {0, 11000}}

(***************************************************************************)
(* Dashboard: StockDashboard's loadStockData                               *)
(***************************************************************************)
\* StockDashboard as constructed; pc is where loadStockData stands ("mount"
\* while the mount effect has yet to call it). History: shown is what
\* stocks held when the load began, raised whether its fetchStockData threw.
NewDashboard ==
    [stocks |-> <<>>, filteredStocks |-> <<>>, loading |-> TRUE, error |-> "",
     usingCachedData |-> FALSE, pc |-> "mount", shown |-> <<>>, raised |-> FALSE]

\* what the component renders: the spinner, the error with its Try Again
\* button, or the table with its Refresh button
DashboardView(d) ==
    IF d.loading THEN "spinner" ELSE IF d.error # "" THEN "error" ELSE "table"

\* loadStockData up to its await
LoadStart(d) ==
    [d EXCEPT !.loading = TRUE, !.error = "", !.usingCachedData = FALSE,
              !.pc = "awaiting", !.shown = d.stocks, !.raised = FALSE]

\* the try block after the await
LoadTry(d, data) == [d EXCEPT !.stocks = data, !.filteredStocks = data]

\* a faulty catch block that also empties the table
LoadCatchDropsStocks(d) ==
    [d EXCEPT !.error = "Failed to fetch stock data. Please try again later.",
              !.stocks = <<>>, !.filteredStocks = <<>>, !.raised = TRUE]

\* the catch block
LoadCatch(d) ==
    [d EXCEPT !.error = "Failed to fetch stock data. Please try again later.",
              !.raised = TRUE]

\* the finally block
LoadFinally(d) == [d EXCEPT !.loading = FALSE, !.pc = "idle"]

(***************************************************************************)
(* State                                                                   *)
(***************************************************************************)
VARIABLES
    apiKey,           \* process.env.REACT_APP_FINNHUB_API_KEY is set
    now,              \* Date.now(), in milliseconds
    ticks,            \* how often the clock has advanced
    cachedStockData,  \* the module-level cache
    cacheTimestamp,
    run,              \* the fetchStockData calls in progress, with their locals
    lastStored,       \* history: the latest cacheStockData call
    fetch,            \* one fetchStockFromFinnhub call, on its own
    quoteSeen,        \* history: the responses that call received
    profileSeen,
    stock,            \* StockChart's prop
    chartData,        \* StockChart's state
    loading,
    error,
    hist,             \* the fetchHistoricalData calls in progress, with their locals
    effectPending,    \* the effect on stock.symbol has yet to run
    today,            \* the calendar day, as a day count
    dashboard         \* StockDashboard's state and its loadStockData call

vars == <<apiKey, now, ticks, cachedStockData, cacheTimestamp, run, lastStored,
          fetch, quoteSeen, profileSeen,
          stock, chartData, loading, error, hist, effectPending, today, dashboard>>
serviceVars == <<apiKey, now, ticks, cachedStockData, cacheTimestamp, run, lastStored>>
fetchVars == <<fetch, quoteSeen, profileSeen>>
chartVars == <<stock, chartData, loading, error, hist, effectPending, today>>
\* what the service's actions leave alone, what the lone fetch's do and
\* what the chart's do
beyondService == <<fetchVars, chartVars, dashboard>>
beyondFetch == <<serviceVars, chartVars, dashboard>>
beyondChart == <<apiKey, now, ticks, cachedStockData, cacheTimestamp, run, lastStored, fetchVars,
                 dashboard>>

\* the fetchStockData calls the model follows: Spec follows one call at a
\* time, SpecOverlap two that may overlap
Runs == {1, 2}
OneAtATime == {1}
\* the fetchHistoricalData calls the model follows
Calls == {1, 2}

\* the wall clock advances by a millisecond or by just under the window
Steps == {1, CACHE_DURATION - 1}

\* a fetchStockData call that has not been made. Besides the call's locals
\* the record keeps history: what the cache held and offered when the call
\* came out of its await, whether it read and wrote the cache, and whether
\* it is the latest call to have come out of its await.
IdleRun ==
    [pc |-> "idle", key |-> FALSE, sink |-> FALSE, fetches |-> <<>>, batch |-> <<>>,
     held |-> <<>>, before |-> <<>>, readCache |-> FALSE, wroteCache |-> FALSE,
     latest |-> FALSE, data |-> <<>>, error |-> "", events |-> <<>>]

\* the upstream answers the batch model draws from
OneQuote == [c |-> Some(110), pc |-> Some(100), v |-> Some(5), isNull |-> FALSE]
BatchQuoteResponses ==
    {r \in QuoteResponses : r.parse => r.data = OneQuote}
    \cup {[net |-> "ok", status |-> 200, parse |-> TRUE, data |-> OneQuote]}
BatchProfileResponses ==
    {r \in ProfileResponses : r.net = "reject" \/ r.name = Some("Apple Inc")}

\* no response received yet
NoQuoteResponse == [net |-> "none", status |-> 0, parse |-> FALSE, data |-> NoQuote]
NoProfileResponse ==
    [net |-> "none", status |-> 0, parse |-> FALSE, isNull |-> FALSE, name |-> None]

\* the module as loaded: an empty cache with timestamp 0. Date.now() is 0
\* (the empty cache looks fresh) or well past the freshness window.
ServiceInit(keys, clocks) ==
    /\ apiKey \in keys
    /\ now \in clocks
    /\ ticks = 0
    /\ cachedStockData = <<>>
    /\ cacheTimestamp = 0
    /\ run = [r \in Runs |-> IdleRun]
    /\ lastStored = [ever |-> FALSE, data |-> <<>>, at |-> 0]

FetchIdle ==
    /\ fetch = [pc |-> "idle", symbol |-> "", quote |-> NoQuote, result |-> None,
                requests |-> 0, raised |-> FALSE]
    /\ quoteSeen = NoQuoteResponse
    /\ profileSeen = NoProfileResponse

\* StockChart as constructed with one of these stocks, before its effect
\* has run
ChartInit(stocks) ==
    /\ stock \in stocks
    /\ chartData = [labels |-> <<>>, data |-> <<>>]
    /\ loading = TRUE
    /\ error = ""
    /\ hist = [h \in Calls |-> IdleCall]
    /\ effectPending = TRUE
    /\ today = 400
    /\ dashboard = NewDashboard

Init ==
    /\ ServiceInit(BOOLEAN, {0, 2 * CACHE_DURATION})
    /\ FetchIdle
    /\ ChartInit({[symbol |-> symbols[1], price |-> 0]})

\* two calls overlap while the key is set
InitOverlap ==
    /\ ServiceInit({TRUE}, {0})
    /\ FetchIdle
    /\ ChartInit({[symbol |-> symbols[1], price |-> 0]})

\* the dashboard is mounted
InitDashboard ==
    /\ ServiceInit(BOOLEAN, {0})
    /\ FetchIdle
    /\ ChartInit({[symbol |-> symbols[1], price |-> 0]})

InitFetch ==
    /\ ServiceInit({TRUE}, {0})
    /\ FetchIdle
    /\ ChartInit({[symbol |-> symbols[1], price |-> 0]})

InitChart ==
    /\ ServiceInit(BOOLEAN, {0})
    /\ FetchIdle
    /\ ChartInit(Stocks)

InitChartOverlap ==
    /\ ServiceInit({TRUE}, {0})
    /\ FetchIdle
    /\ ChartInit({s \in Stocks : s.price > 0})

(***************************************************************************)
(* fetchStockData, cut at its awaits                                       *)
(***************************************************************************)
\* the call up to its first await: the key check, then symbols.map starts
\* every per-symbol fetch, each of which issues its quote request
Called(sink) ==
    LET called == [IdleRun EXCEPT !.key = apiKey, !.sink = sink]
    IN  IF KeyMissing(called.key)
        THEN ThrowConfig(called)
        ELSE [called EXCEPT !.pc = "fetching",
                            !.fetches = [i \in 1..Len(symbols) |->
                                           StartFetch(symbols[i])]]

\* fetchStockData(onNotification) is called
Call(r, sink) ==
    /\ run[r].pc = "idle"
    /\ \A q \in Runs : q < r => run[q].pc # "idle"
    /\ run' = [run EXCEPT ![r] = Called(sink)]
    /\ UNCHANGED <<apiKey, now, ticks, cachedStockData, cacheTimestamp,
                   lastStored>>
    /\ UNCHANGED beyondService

\* one per-symbol fetch runs to its end: its quote request settles and, if
\* that went well, its profile request settles. Between the two the fetch
\* touches nothing but its own locals, so the batch model takes both
\* segments as one step.
FetchSettles(r, i, quoteResp, profileResp) ==
    /\ run[r].pc # "idle"
    /\ i \in 1..Len(run[r].fetches)
    /\ run[r].fetches[i].pc = "quote"
    /\ LET afterQuote == OnQuote(run[r].fetches[i], quoteResp)
       IN  run' = [run EXCEPT ![r].fetches[i] =
                     IF afterQuote.pc = "profile"
                     THEN OnProfile(afterQuote, profileResp)
                     ELSE afterQuote]
    /\ UNCHANGED <<apiKey, now, ticks, cachedStockData, cacheTimestamp,
                   lastStored>>
    /\ UNCHANGED beyondService

\* Promise.all settles. Fulfilled: filter, cacheStockData, return, and the
\* rest of fetchStockData's try block follows in the same turn of the event
\* loop (each continuation is queued by the one before it, and no response
\* of another call can arrive in between). Rejected: fetchStocksFromFinnhub
\* rethrows and fetchStockData's catch block runs.
Complete(r) ==
    /\ run[r].pc = "fetching"
    /\ LET fs == run[r].fetches
           before == getCachedStockData(cachedStockData, cacheTimestamp, now)
           others == [q \in Runs |-> [run[q] EXCEPT !.latest = FALSE]]
           out == [run[r] EXCEPT !.held = cachedStockData, !.before = before,
                                 !.latest = TRUE]
       IN  IF PromiseAllRejected(fs)
           THEN /\ run' = [others EXCEPT ![r] = CatchFetchStockData(out, before)]
                /\ UNCHANGED <<cachedStockData, cacheTimestamp, lastStored>>
           ELSE /\ PromiseAllFulfilled(fs)
                /\ LET valid == validResults(fs)
                       cache == cacheStockData(valid, now)
                   IN  /\ cachedStockData' = cache.data
                       /\ cacheTimestamp' = cache.timestamp
                       /\ lastStored' = [ever |-> TRUE, data |-> valid, at |-> now]
                       /\ run' = [others EXCEPT ![r] =
                             TryFetchStockData(
                                 [out EXCEPT !.batch = valid, !.wroteCache = TRUE],
                                 valid,
                                 getCachedStockData(cache.data, cache.timestamp, now))]
    /\ UNCHANGED <<apiKey, now, ticks>>
    /\ UNCHANGED beyondService

\* the caller has taken the result or the error; the slot is free again
Settle(r) ==
    /\ run[r].pc \in {"returned", "thrown"}
    /\ \A i \in 1..Len(run[r].fetches) : run[r].fetches[i].pc = "done"
    /\ run' = [run EXCEPT ![r] = IdleRun]
    /\ UNCHANGED <<apiKey, now, ticks, cachedStockData, cacheTimestamp,
                   lastStored>>
    /\ UNCHANGED beyondService

\* the environment variable is set or unset between calls (each call reads
\* process.env anew)
SetEnv(key) ==
    /\ apiKey # key
    /\ apiKey' = key
    /\ UNCHANGED <<now, ticks, cachedStockData, cacheTimestamp, run, lastStored>>
    /\ UNCHANGED beyondService

\* time passes
Tick(d) ==
    /\ ticks < MaxTicks
    /\ now' = now + d
    /\ ticks' = ticks + 1
    /\ UNCHANGED <<apiKey, cachedStockData, cacheTimestamp, run, lastStored>>
    /\ UNCHANGED beyondService

Next ==
    \/ \E r \in OneAtATime, sink \in BOOLEAN : Call(r, sink)
    \/ \E r \in OneAtATime, i \in 1..NumSymbols :
          \E quoteResp \in BatchQuoteResponses, profileResp \in BatchProfileResponses :
             FetchSettles(r, i, quoteResp, profileResp)
    \/ \E r \in OneAtATime : Complete(r)
    \/ \E r \in OneAtATime : Settle(r)
    \/ \E d \in Steps : Tick(d)
    \/ \E key \in BOOLEAN : SetEnv(key)

\* what the overlapping calls draw from: both are made with a sink, and
\* the clock advances by a millisecond
OverlapSinks == {TRUE}
OverlapSteps == {1}

\* the first two fetchStockData calls, which may overlap
NextOverlap ==
    \/ \E r \in Runs, sink \in OverlapSinks : Call(r, sink)
    \/ \E r \in Runs, i \in 1..NumSymbols :
          \E quoteResp \in BatchQuoteResponses, profileResp \in BatchProfileResponses :
             FetchSettles(r, i, quoteResp, profileResp)
    \/ \E r \in Runs : Complete(r)
    \/ \E d \in OverlapSteps : Tick(d)



(***************************************************************************)
(* One fetchStockFromFinnhub call on its own, over every upstream answer   *)
(***************************************************************************)
FetchCall(symbol) ==
    /\ fetch.pc = "idle"
    /\ fetch' = StartFetch(symbol)
    /\ UNCHANGED <<quoteSeen, profileSeen>>
    /\ UNCHANGED beyondFetch

FetchQuote(resp) ==
    /\ fetch.pc = "quote"
    /\ fetch' = OnQuote(fetch, resp)
    /\ quoteSeen' = resp
    /\ UNCHANGED profileSeen
    /\ UNCHANGED beyondFetch

FetchProfile(resp) ==
    /\ fetch.pc = "profile"
    /\ fetch' = OnProfile(fetch, resp)
    /\ profileSeen' = resp
    /\ UNCHANGED quoteSeen
    /\ UNCHANGED beyondFetch

NextFetch ==
    \/ \E i \in 1..Len(symbols) : FetchCall(symbols[i])
    \/ \E resp \in QuoteResponses : FetchQuote(resp)
    \/ \E resp \in ProfileResponses : FetchProfile(resp)

(***************************************************************************)
(* fetchHistoricalData, cut at its awaits                                  *)
(***************************************************************************)
\* generateFallbackData() called from the call in slot h
Fallback(call, view, rolls) ==
    [call |-> [call EXCEPT !.fallback = TRUE, !.set = "synthetic"],
     view |-> [view EXCEPT !.chartData = FallbackChartData(call.price, today, rolls)]]

\* a faulty catch block that sets the error and leaves the chart as it is
HistoryCatchWithoutFallback(call, view, rolls) ==
    [call |-> call, view |-> [view EXCEPT !.error = "Failed to load historical data"]]

\* the catch block: setError, then the simulated data
HistoryCatch(call, view, rolls) ==
    Fallback(call, [view EXCEPT !.error = "Failed to load historical data"], rolls)

\* the try block after the await: a usable payload becomes the chart data,
\* anything else the simulated data
HistoryTry(call, view, payload, rolls) ==
    LET got == [call EXCEPT !.data = Some(payload)]
    IN  IF Usable(payload)
        THEN [call |-> [got EXCEPT !.set = "real"],
              view |-> [view EXCEPT !.chartData = RealChartData(payload)]]
        ELSE Fallback(got, view, rolls)

\* the finally block: setLoading(false); the call is over
HistoryFinally(cv) ==
    LET view == [cv.view EXCEPT !.loading = FALSE]
    IN  [call |-> [cv.call EXCEPT !.pc = "done", !.left = Some(view)],
         view |-> view]

\* the component's state as one record
View == [chartData |-> chartData, loading |-> loading, error |-> error]

\* the call and the component's state after a step of slot h
Becomes(h, cv) ==
    /\ hist' = [g \in Calls |->
                  IF g = h THEN cv.call
                  ELSE [hist[g] EXCEPT !.newest = @ /\ ~cv.call.newest]]
    /\ chartData' = cv.view.chartData
    /\ loading' = cv.view.loading
    /\ error' = cv.view.error

\* the retry loop has thrown: the catch and finally blocks of
\* fetchHistoricalData run
Threw(call) == call.pc = "threw"

\* the effect runs fetchHistoricalData up to its first await: the flags are
\* reset and, with a key, the first request is issued; without one the
\* catch and finally blocks run at once
HistoryCall(h, rolls) ==
    /\ hist[h].pc = "idle"
    /\ \A g \in Calls : g < h => hist[g].pc # "idle"
    /\ effectPending
    /\ effectPending' = FALSE
    /\ LET view == [View EXCEPT !.loading = TRUE, !.error = ""]
           call == [IdleCall EXCEPT !.symbol = stock.symbol, !.price = stock.price,
                                    !.retries = DefaultRetries, !.newest = TRUE]
       IN  IF KeyMissing(apiKey)
           THEN Becomes(h, HistoryFinally(HistoryCatch(call, view, rolls)))
           ELSE Becomes(h, [call |-> [call EXCEPT !.pc = "request", !.requests = 1],
                            view |-> view])
    /\ UNCHANGED <<stock, today>>
    /\ UNCHANGED beyondChart

\* a candle request settles
HistoryResponse(h, resp, rolls) ==
    /\ hist[h].pc = "request"
    /\ LET call == hist[h]
           after == IF resp.net = "reject" THEN RetryCatch(call)
                    ELSE IF ~ResponseOk(resp.status)
                         THEN IF resp.status = 429 THEN RateLimited(call)
                              ELSE RetryCatch(call)
                    ELSE IF ~resp.parse THEN RetryCatch(call)
                    ELSE [call EXCEPT !.pc = "returned"]
       IN  IF Threw(after)
           THEN Becomes(h, HistoryFinally(HistoryCatch(after, View, rolls)))
           ELSE IF after.pc = "returned"
           THEN Becomes(h, HistoryFinally(HistoryTry(after, View, resp.data, rolls)))
           ELSE Becomes(h, [call |-> after, view |-> View])
    /\ UNCHANGED <<stock, today, effectPending>>
    /\ UNCHANGED beyondChart

\* a delay of the retry loop is over
HistoryDelayOver(h, rolls) ==
    /\ hist[h].pc = "delay"
    /\ LET after == NextAttempt(hist[h])
       IN  IF Threw(after)
           THEN Becomes(h, HistoryFinally(HistoryCatch(after, View, rolls)))
           ELSE Becomes(h, [call |-> after, view |-> View])
    /\ UNCHANGED <<stock, today, effectPending>>
    /\ UNCHANGED beyondChart

\* the finished call is forgotten; its slot is free again
HistorySettle(h) ==
    /\ hist[h].pc = "done"
    /\ hist' = [hist EXCEPT ![h] = IdleCall]
    /\ UNCHANGED <<stock, today, effectPending, chartData, loading, error>>
    /\ UNCHANGED beyondChart

\* the dashboard passes another stock: a new symbol schedules the effect
Select(s) ==
    /\ ~effectPending
    /\ s.symbol # stock.symbol
    /\ stock' = s
    /\ effectPending' = TRUE
    /\ UNCHANGED <<today, hist, chartData, loading, error>>
    /\ UNCHANGED beyondChart

NextChart ==
    \/ \E h \in OneAtATime, rolls \in RollPatterns : HistoryCall(h, rolls)
    \/ \E h \in OneAtATime, resp \in HistoryResponses, rolls \in RollPatterns :
          HistoryResponse(h, resp, rolls)
    \/ \E h \in OneAtATime, rolls \in RollPatterns : HistoryDelayOver(h, rolls)
    \/ \E h \in OneAtATime : HistorySettle(h)
    \/ \E s \in Stocks : Select(s)

\* what the overlapping calls draw from: the stocks with a price, one
\* pattern of draws, and a short series or no series as the payload
OverlapStocks == {s \in Stocks : s.price > 0}
OverlapRolls == {[i \in 0..days |-> IF i % 2 = 0 THEN -5 ELSE 4]}
OverlapResponses == {r \in HistoryResponses : r.parse => r.data \in {Series(2), NoPayload}}

\* the first two calls of a chart, which may overlap
NextChartOverlap ==
    \/ \E h \in Calls, rolls \in OverlapRolls : HistoryCall(h, rolls)
    \/ \E h \in Calls, resp \in OverlapResponses, rolls \in OverlapRolls :
          HistoryResponse(h, resp, rolls)
    \/ \E h \in Calls, rolls \in OverlapRolls : HistoryDelayOver(h, rolls)
    \/ \E s \in OverlapStocks : Select(s)

(***************************************************************************)
(* loadStockData, cut at its await                                         *)
(***************************************************************************)
\* the mount effect, or a click on Refresh Data or Try Again, calls
\* loadStockData: it runs up to its await, and so does the fetchStockData
\* call it makes (with a sink in the notifying dashboard, without in the
\* plain one)
LoadStockData(sink) ==
    /\ \/ dashboard.pc = "mount"
       \/ dashboard.pc = "idle" /\ DashboardView(dashboard) \in {"error", "table"}
    /\ run[1].pc = "idle"
    /\ dashboard' = LoadStart(dashboard)
    /\ run' = [run EXCEPT ![1] = Called(sink)]
    /\ UNCHANGED <<apiKey, now, ticks, cachedStockData, cacheTimestamp, lastStored>>
    /\ UNCHANGED <<fetchVars, chartVars>>

\* fetchStockData has returned or thrown: the try or the catch block of
\* loadStockData runs, then its finally block
LoadResumes ==
    /\ dashboard.pc = "awaiting"
    /\ run[1].pc \in {"returned", "thrown"}
    /\ dashboard' = LoadFinally(IF run[1].pc = "returned"
                                THEN LoadTry(dashboard, run[1].data)
                                ELSE LoadCatch(dashboard))
    /\ run' = [run EXCEPT ![1] = IdleRun]
    /\ UNCHANGED <<apiKey, now, ticks, cachedStockData, cacheTimestamp, lastStored>>
    /\ UNCHANGED <<fetchVars, chartVars>>

NextDashboard ==
    \/ \E sink \in BOOLEAN : LoadStockData(sink)
    \/ \E i \in 1..NumSymbols :
          \E quoteResp \in BatchQuoteResponses, profileResp \in BatchProfileResponses :
             FetchSettles(1, i, quoteResp, profileResp)
    \/ Complete(1)
    \/ LoadResumes
    \/ \E d \in Steps : Tick(d)
    \/ \E key \in BOOLEAN : SetEnv(key)

\* every request is answered in the end, and the event loop runs every
\* continuation that is ready
FairDashboard ==
    /\ WF_vars(\E i \in 1..NumSymbols :
                  \E quoteResp \in BatchQuoteResponses,
                     profileResp \in BatchProfileResponses :
                     FetchSettles(1, i, quoteResp, profileResp))
    /\ WF_vars(Complete(1))
    /\ WF_vars(LoadResumes)

(***************************************************************************)
(* Specifications                                                          *)
(***************************************************************************)
\* fetchStockData, one call at a time
Spec == Init /\ [][Next]_vars

\* fetchStockData, two calls that may overlap
SpecOverlap == InitOverlap /\ [][NextOverlap]_vars

\* one fetchStockFromFinnhub call
SpecFetch == InitFetch /\ [][NextFetch]_vars

\* StockChart, one fetchHistoricalData call at a time
SpecChart == InitChart /\ [][NextChart]_vars

\* StockChart, the call for a new symbol overlapping the one before
SpecChartOverlap == InitChartOverlap /\ [][NextChartOverlap]_vars

\* StockDashboard over the service, every started load being carried on
SpecDashboard == InitDashboard /\ [][NextDashboard]_vars /\ FairDashboard

(***************************************************************************)
(* Properties                                                              *)
(***************************************************************************)
\* the call has come back to its caller
Finished(r) == run[r].pc \in {"returned", "thrown"}

\* every per-symbol fetch of the call failed
AllFailed(r) ==
    /\ run[r].fetches # <<>>
    /\ \A i \in 1..Len(run[r].fetches) :
          run[r].fetches[i].pc = "done" /\ run[r].fetches[i].result = None

\* the call emitted an event of this type (it can only do so with a sink)
Emitted(r, type) == \E k \in 1..Len(run[r].events) : run[r].events[k].type = type

\* C1 (as claimed): a call whose per-symbol fetches all failed, made with the
\* credential while the cache held a fresh non-empty snapshot of an earlier
\* call, returns that snapshot and emits a warning instead of raising.
C1_FreshCacheServedOnTotalFailure ==
    \A r \in Runs :
        (Finished(r) /\ run[r].key /\ AllFailed(r) /\ run[r].before # <<>>)
        => /\ run[r].pc = "returned"
           /\ run[r].data = run[r].before
           /\ (run[r].sink => Emitted(r, "warning"))

\* C2 (as claimed): a batch loader run in which zero symbols succeeded
\* leaves cachedStockData and cacheTimestamp as they were.
C2_EmptyBatchLeavesCache ==
    [][\A r \in Runs :
          (run[r].pc = "fetching" /\ run'[r].pc # "fetching"
           /\ validResults(run[r].fetches) = <<>>)
          => (cachedStockData' = cachedStockData /\ cacheTimestamp' = cacheTimestamp)]_vars

\* C3: getCachedStockData returns the array of the latest cacheStockData
\* call while less than five minutes have passed since that call, and the
\* empty array once five minutes or more have passed or if nothing was
\* ever stored.
C3_CacheFreshness ==
    getCachedStockData(cachedStockData, cacheTimestamp, now)
      = IF lastStored.ever /\ now - lastStored.at < CACHE_DURATION
        THEN lastStored.data
        ELSE <<>>

\* a non-empty batch was stored and exactly five minutes have passed
C3_Witness ==
    /\ lastStored.ever
    /\ lastStored.data # <<>>
    /\ now - lastStored.at = CACHE_DURATION
    /\ getCachedStockData(cachedStockData, cacheTimestamp, now) = <<>>

\* C4: a call whose per-symbol fetches all failed while the cache was empty
\* or stale raises the fatal error and returns no data.
C4_FatalWhenNoFallback ==
    \A r \in Runs :
        (Finished(r) /\ AllFailed(r) /\ run[r].before = <<>>)
        => /\ run[r].pc = "thrown"
           /\ run[r].error = "fatal"
           /\ run[r].data = <<>>

\* every fetch of a call failed while the cache held a non-empty batch
\* that was stale, and the call raised the fatal error
C4_Witness ==
    \E r \in Runs :
        /\ run[r].pc = "thrown"
        /\ run[r].error = "fatal"
        /\ AllFailed(r)
        /\ run[r].held # <<>>
        /\ run[r].before = <<>>

\* C5: a call made without the credential raises the configuration error
\* having issued no request, neither read nor written the cache and emitted
\* no event, whatever the cache holds.
C5_ConfigErrorFirst ==
    \A r \in Runs :
        (run[r].pc # "idle" /\ ~run[r].key)
        => /\ run[r].pc = "thrown"
           /\ run[r].error = "config"
           /\ run[r].fetches = <<>>
           /\ ~run[r].readCache
           /\ ~run[r].wroteCache
           /\ run[r].events = <<>>
           /\ run[r].data = <<>>

\* the credential is missing while the cache holds a fresh non-empty batch,
\* and a call that was given a sink has raised the configuration error
C5_Witness ==
    \E r \in Runs :
        /\ ~run[r].key
        /\ run[r].sink
        /\ run[r].pc = "thrown"
        /\ getCachedStockData(cachedStockData, cacheTimestamp, now) # <<>>

\* the quote request of the lone fetch failed: network error, non-OK status
\* (rate limit or other) or unparsable body
QuoteFailed ==
    \/ quoteSeen.net = "reject"
    \/ quoteSeen.net = "ok" /\ ~ResponseOk(quoteSeen.status)
    \/ quoteSeen.net = "ok" /\ ~quoteSeen.parse

\* the quote request of the lone fetch delivered a quote object
QuoteSucceeded ==
    /\ quoteSeen.net = "ok" /\ ResponseOk(quoteSeen.status) /\ quoteSeen.parse
    /\ ~quoteSeen.data.isNull

\* C6 (as claimed): the changePercent of a record is finite; it is 0 when
\* pc is 0 or missing and (c - pc) / pc * 100 rounded to two places
\* otherwise.
C6_ChangePercent ==
    (fetch.pc = "done" /\ fetch.result # None)
    => LET q == fetch.quote
           cp == fetch.result[1].changePercent
       IN  /\ cp.kind = "finite"
           /\ ~Truthy(q.pc) => cp = Fin(0)
           /\ (Truthy(q.pc) /\ q.c # None)
                 => cp = Fin(RoundHundredths(q.c[1] - q.pc[1], q.pc[1]))

\* the ways the profile request can fail to deliver a name
ProfileRejected == profileSeen.net = "reject"
ProfileNotOk == profileSeen.net = "ok" /\ ~ResponseOk(profileSeen.status)
ProfileUnparsable ==
    /\ profileSeen.net = "ok" /\ ResponseOk(profileSeen.status)
    /\ (~profileSeen.parse \/ profileSeen.isNull)
ProfileNameless ==
    /\ profileSeen.net = "ok" /\ ResponseOk(profileSeen.status)
    /\ profileSeen.parse /\ ~profileSeen.isNull
    /\ (profileSeen.name = None \/ profileSeen.name = Some(""))

\* the lone fetch returned a record named after its symbol
NamedAfterSymbol == fetch.result # None /\ fetch.result[1].name = fetch.symbol

C9_BatchIsTheSuccesses ==
    \A r \in Runs :
        (Finished(r) /\ run[r].key)
        => /\ run[r].wroteCache
           /\ Len(run[r].fetches) = Len(symbols)
           /\ Len(run[r].batch) <= Len(symbols)
           /\ \A i \in 1..Len(run[r].fetches) :
                 LET f == run[r].fetches[i]
                     at == {k \in 1..Len(run[r].batch) :
                               run[r].batch[k].symbol = symbols[i]}
                 IN  /\ f.pc = "done"
                     /\ f.result = None => at = {}
                     /\ f.result # None
                           => (Cardinality(at) = 1
                               /\ \A k \in at : run[r].batch[k] = f.result[1])

\* the first symbol failed and the second one is in the batch
C9_Witness ==
    \E r \in Runs :
        /\ Finished(r)
        /\ run[r].wroteCache
        /\ run[r].fetches[1].result = None
        /\ Len(run[r].batch) = 1
        /\ run[r].batch[1].symbol = symbols[2]

\* C10: fetchHistoricalData ends in its finally block whatever the upstream
\* answered: a finished call has set the chart data, from the real series
\* or from the synthetic one, and if the retry loop gave up or the key was
\* missing, generateFallbackData ran before the call finished.
C10_HistoryEndsWithChartData ==
    \A h \in Calls :
        /\ hist[h].pc \in {"idle", "request", "delay", "done"}
        /\ hist[h].pc = "done"
              => /\ hist[h].set \in {"real", "synthetic"}
                 /\ (hist[h].gaveUp \/ hist[h].requests = 0)
                       => (hist[h].fallback /\ hist[h].set = "synthetic")

\* every attempt of a call was rate-limited and the chart shows the
\* synthetic series
C10_Witness ==
    \E h \in Calls :
        /\ hist[h].pc = "done"
        /\ hist[h].requests = DefaultRetries + 1
        /\ Len(hist[h].delays) = DefaultRetries + 1
        /\ \A k \in 1..Len(hist[h].delays) : hist[h].delays[k].why = "rateLimit"
        /\ hist[h].gaveUp
        /\ hist[h].fallback
        /\ Len(chartData.data) = days + 1
        /\ error # ""
        /\ ~loading

\* the waits of a call that followed a rate-limited response, and those
\* that followed another failure
RateLimitWaits(call) == {k \in 1..Len(call.delays) : call.delays[k].why = "rateLimit"}
BackoffWaits(call) == {k \in 1..Len(call.delays) : call.delays[k].why = "backoff"}

\* C11: a rate-limited response is followed by a wait of 2000 ms and stays
\* outside the exponential backoff: the wait after any other failure is
\* 1000 * 2^j ms, j being the number of earlier failures of the call that
\* were not rate limits, and a call gives up only after retries + 1
\* requests that failed for another reason than a rate limit.
C11_RateLimitOutsideBackoff ==
    \A h \in Calls :
        LET call == hist[h]
        IN  /\ \A k \in RateLimitWaits(call) : call.delays[k].ms = RateLimitDelay
            /\ \A k \in BackoffWaits(call) :
                  call.delays[k].ms =
                      BaseDelay * Pow2(Cardinality({j \in BackoffWaits(call) : j < k}))
            /\ call.gaveUp
                  => call.requests - Cardinality(RateLimitWaits(call)) = call.retries + 1

\* C12: a call with the default budget issues at most three requests, and
\* when it gives up it has waited only between requests, never after the
\* last one.
C12_NoWaitAfterLastAttempt ==
    \A h \in Calls :
        LET call == hist[h]
        IN  /\ call.requests <= DefaultRetries + 1
            /\ call.gaveUp => Len(call.delays) = call.requests - 1

\* the retry loop of the call returned a payload without the timestamp
\* array or without the close-price array, and the call is over
MalformedPayload(h) ==
    /\ hist[h].pc = "done"
    /\ hist[h].data # None
    /\ ~Usable(hist[h].data[1])

\* cur is within a 5% multiplicative step of prev, both in cents, give or
\* take slack hundredths of a cent
WithinStep(prev, cur, slack) ==
    /\ 100 * cur >= 95 * prev - slack
    /\ 100 * cur <= 105 * prev + slack

\* the chart shows 31 points labelled with the days from 30 days ago to
\* today, and no error
SyntheticShape ==
    /\ error = ""
    /\ Len(chartData.data) = days + 1
    /\ Len(chartData.labels) = days + 1
    /\ \A k \in 1..(days + 1) : chartData.labels[k] = DayLabel(today - (days + 1 - k))

\* the first point steps from the stock's price and every later point from
\* its predecessor
SyntheticSteps(h, slack) ==
    /\ WithinStep(hist[h].price, chartData.data[1], slack)
    /\ \A k \in 2..(days + 1) :
          WithinStep(chartData.data[k - 1], chartData.data[k], slack)

\* C13 (as stated): after a payload without the timestamp or the close-price
\* array the chart shows no error and 31 synthetic points, the first within
\* a 5% step of the stock's price and each later one within a 5% step of
\* its predecessor.
C13_SyntheticWithinFivePercent ==
    \A h \in Calls : MalformedPayload(h) => (SyntheticShape /\ SyntheticSteps(h, 0))

\* C13 (amended): after a payload without the timestamp or the close-price
\* array the chart shows no error and 31 synthetic points labelled with
\* the days from 30 days ago to today; the points are rounded to two
\* decimals, and the first differs from a 5% step of the stock's price,
\* and each later one from a 5% step of its predecessor, by at most 0.02.
C13_SyntheticWithinFivePercentRounded ==
    \A h \in Calls : MalformedPayload(h) => (SyntheticShape /\ SyntheticSteps(h, 200))

\* a payload without the close-price array came back for a stock with a
\* price, and the chart shows a synthetic series that moves
C13_Witness ==
    \E h \in Calls :
        /\ MalformedPayload(h)
        /\ hist[h].data[1].t # None
        /\ hist[h].data[1].c = None
        /\ hist[h].price > 0
        /\ hist[h].set = "synthetic"
        /\ Len(chartData.data) = days + 1
        /\ chartData.data[1] # chartData.data[days + 1]

\* the retry loop of the call returned a payload with both arrays, of the
\* same length, and the call is over
ParallelPayload(h) ==
    /\ hist[h].pc = "done"
    /\ hist[h].data # None
    /\ Usable(hist[h].data[1])
    /\ Len(hist[h].data[1].t[1]) = Len(hist[h].data[1].c[1])

\* Math.min(a, b)
Min(a, b) == IF a < b THEN a ELSE b

FinishedWriter(r) == Finished(r) /\ run[r].wroteCache

\* a step that stores into the cache is the step of one call whose
\* per-symbol fetches are all over, and it stores that call's successes
StoresOneJoinedBatch ==
    (lastStored' # lastStored
     \/ cachedStockData' # cachedStockData
     \/ cacheTimestamp' # cacheTimestamp)
    => \E r \in Runs :
          /\ run[r].pc = "fetching"
          /\ \A i \in 1..Len(run[r].fetches) : run[r].fetches[i].pc = "done"
          /\ run'[r].wroteCache
          /\ cachedStockData' = validResults(run[r].fetches)
          /\ cacheTimestamp' = now

\* the cache holds what the latest store put there; when two calls that
\* wrote it have both come back, that is the batch of the later one
HoldsLaterBatch ==
    /\ cachedStockData = lastStored.data
    /\ cacheTimestamp = lastStored.at
    /\ \A r, q \in Runs :
          (r # q /\ FinishedWriter(r) /\ FinishedWriter(q) /\ run[r].latest)
          => (cachedStockData = run[r].batch /\ ~run[q].latest)

\* C15: when two fetchStockData calls overlap, the cache is written only
\* after every per-symbol fetch of the writing call is over, the snapshot
\* is always the batch of a single call, and once both calls have come back
\* the cache holds the batch of the call that came back later.
C15_LaterBatchWins == []HoldsLaterBatch /\ [][StoresOneJoinedBatch]_vars

\* two calls overlapped; the one that came back first had stored the first
\* symbol only, the later one the second symbol only, and the cache holds
\* the later one's batch
C15_Witness ==
    \E r, q \in Runs :
        /\ r # q
        /\ FinishedWriter(r) /\ FinishedWriter(q)
        /\ run[r].latest
        /\ Len(run[q].batch) = 1 /\ run[q].batch[1].symbol = symbols[1]
        /\ Len(run[r].batch) = 1 /\ run[r].batch[1].symbol = symbols[2]
        /\ run[q].held = <<>>
        /\ run[r].held = run[q].batch
        /\ cachedStockData = run[r].batch

\* what a call that has come back has sent to its sink: one info event
\* with the number of records for a live batch, one warning for the cached
\* snapshot, nothing when it raised
OneEventPerReturn(r) ==
    /\ run[r].pc = "thrown" => run[r].events = <<>>
    /\ (run[r].pc = "returned" /\ run[r].sink)
          => /\ Len(run[r].events) = 1
             /\ IF run[r].readCache
                THEN /\ run[r].events[1].type = "warning"
                     /\ run[r].data = run[r].before
                ELSE /\ run[r].events[1] = [type |-> "info", count |-> Len(run[r].data)]
                     /\ run[r].data = run[r].batch
                     /\ Len(run[r].batch) > 0
    /\ (run[r].pc = "returned" /\ ~run[r].sink) => run[r].events = <<>>

\* the step that takes a call out of its await gives the caller and the
\* cache what it would have given them had the sink been passed or not
SinkChangesNothing ==
    \A r \in Runs :
        (run[r].pc = "fetching" /\ run'[r].pc # "fetching")
        => LET valid == validResults(run[r].fetches)
               other == TryFetchStockData(
                            [run[r] EXCEPT !.sink = ~@], valid,
                            getCachedStockData(cachedStockData', cacheTimestamp', now))
           IN  /\ other.pc = run'[r].pc
               /\ other.data = run'[r].data
               /\ other.error = run'[r].error
               /\ cachedStockData' = cacheStockData(valid, now).data
               /\ cacheTimestamp' = cacheStockData(valid, now).timestamp

LoadOutcome ==
    dashboard.pc = "idle"
    => /\ ~dashboard.loading
       /\ (dashboard.error # "") <=> dashboard.raised
       /\ dashboard.raised
             => /\ dashboard.stocks = dashboard.shown
                /\ DashboardView(dashboard) = "error"

\* the cache is read only by a call whose per-symbol fetches were all
\* issued and are over
LiveFetchBeforeCache ==
    \A r \in Runs :
        run[r].readCache
        => /\ Len(run[r].fetches) = Len(symbols)
           /\ \A i \in 1..Len(run[r].fetches) :
                 run[r].fetches[i].requests >= 1 /\ run[r].fetches[i].pc = "done"

\* a load started from the error view clears the error, shows the spinner
\* and calls fetchStockData, which has issued its requests or thrown the
\* configuration error without reading the cache
RetryStartsALoad ==
    (dashboard.pc = "idle" /\ dashboard.error # "" /\ dashboard'.pc = "awaiting")
    => /\ dashboard'.error = ""
       /\ dashboard'.loading
       /\ ~run'[1].readCache
       /\ \/ run'[1].pc = "thrown" /\ run'[1].error = "config" /\ KeyMissing(apiKey)
          \/ /\ run'[1].pc = "fetching"
             /\ \A i \in 1..Len(symbols) : run'[1].fetches[i].requests = 1

\* C17: every loadStockData call ends with loading = false; afterwards the
\* error is set exactly when fetchStockData threw, the stocks shown are
\* then unchanged and the view offers Try Again, which starts a new load
\* that clears the error and makes its live requests before any read of
\* the cache.
C17_LoadEndsAndOffersRetry ==
    /\ [](LoadOutcome /\ LiveFetchBeforeCache)
    /\ [][RetryStartsALoad]_vars
    /\ (dashboard.pc = "awaiting") ~> (dashboard.pc = "idle" /\ ~dashboard.loading)

\* a load that followed one which had filled the table ended with the
\* error view and the table's stocks still in place
C17_Witness ==
    /\ dashboard.pc = "idle"
    /\ dashboard.raised
    /\ dashboard.error # ""
    /\ ~dashboard.loading
    /\ dashboard.stocks # <<>>
    /\ dashboard.stocks = dashboard.shown

\* no fetchHistoricalData call is under way and none is about to be made
NoHistoryInFlight ==
    /\ ~effectPending
    /\ \A h \in Calls : hist[h].pc \in {"idle", "done"}

\* C18: when the symbol changed while an earlier history fetch was under
\* way, then once every fetch is over the chart data, the loading flag and
\* the error are those left by the fetch made for the symbol now selected.
C18_ChartShowsSelectedSymbol ==
    NoHistoryInFlight
    => \A h \in Calls :
          (hist[h].pc = "done" /\ hist[h].newest)
          => /\ hist[h].symbol = stock.symbol
             /\ View = hist[h].left[1]

=============================================================================
